---- MODULE Spec2Model ----
(***************************************************************************)
(* Model of the sync-events-and-notify edge function                       *)
(* (src/services/wikipedia.ts, lines 262-776) and of the tables it works   *)
(* on (src/unnamed/part_013).                                              *)
(*                                                                         *)
(* One invocation of syncEventsAndNotify is a process that moves through   *)
(* the function one awaited call at a time.  The tables known_events and   *)
(* sent_notifications are shared by all invocations.                       *)
(***************************************************************************)
EXTENDS Naturals, Sequences, FiniteSets

\* ------------------------------------------------------------------ bounds

\* Number of invocations of the entrypoint in one behaviour, when they follow
\* one another and when they may overlap.
MaxRuns == 3
MaxOverlapRuns == 2

\* Runs whose store calls can fail: the number of runs and of failing calls.
MaxFaultRuns == 2
MaxStoreFaults == 2

\* The timing of catalog requests: at most MaxTicks times the clock moves
\* without a timer being due.
MaxTicks == 2

\* The app: at most MaxTasks asynchronous continuations are in flight.
MaxTasks == 2

\* The invocation slots: two invocations can be in flight at the same time.
Procs == {1, 2}

Users == {"u1", "u2"}
Artists == {"a1", "a2"}

NULL == "null"

\* The order in which the store returns rows of user_artists and users.
ArtistOrder == <<"a1", "a2">>
UserOrder == <<"u1", "u2">>

\* ----------------------------------------------------------------- helpers

Count(f, k) == IF k \in DOMAIN f THEN f[k] ELSE 0

Inc(f, k) == [x \in (DOMAIN f) \cup {k} |-> Count(f, x) + (IF x = k THEN 1 ELSE 0)]

\* ------------------------------------------------------------ environment

\* Upstream events (TicketmasterEvent): id and the segment names of its
\* classifications.
EvMusic1 == [id |-> "e1", classifications |-> <<"Music">>]
EvMusic2 == [id |-> "e2", classifications |-> <<>>]
EvSports == [id |-> "s1", classifications |-> <<"Music", "Sports">>]

\* What the catalog answers for each artist.
CatalogChoices ==
    { [a \in Artists |-> IF a = "a1" THEN <<EvMusic1, EvSports>> ELSE <<EvMusic2>>],
      [a \in Artists |-> IF a = "a1" THEN <<EvMusic1, EvMusic2>> ELSE <<EvMusic1>>] }

\* Rows of user_artists.
SubscriptionChoices ==
    { {<<"u1", "a1">>, <<"u2", "a1">>, <<"u2", "a2">>},
      {<<"u1", "a1">>} }

\* Column push_token of users: a token, null, or the empty string.
TokenChoices ==
    { [u \in Users |-> IF u = "u1" THEN "tok1" ELSE "tok2"],
      [u \in Users |-> IF u = "u1" THEN "tok1" ELSE NULL],
      [u \in Users |-> IF u = "u1" THEN "" ELSE "tok2"] }


\* What the Expo push service does with a request: the request throws, or it
\* is answered with response.ok and, in the body, data.status.
PushDelivered == [thrown |-> FALSE, ok |-> TRUE, status |-> "ok"]
PushNonOK == [thrown |-> FALSE, ok |-> FALSE, status |-> "none"]
PushStatusError == [thrown |-> FALSE, ok |-> TRUE, status |-> "error"]
PushThrows == [thrown |-> TRUE, ok |-> FALSE, status |-> "none"]
PushResponses == {PushDelivered, PushNonOK, PushStatusError, PushThrows}


\* The environment variables the handler asks for, and which of them are set.
RequiredEnv == {"TICKETMASTER_API_KEY", "SUPABASE_URL", "SUPABASE_SERVICE_ROLE_KEY"}
ConfigChoices == {RequiredEnv} \cup {RequiredEnv \ {v} : v \in RequiredEnv}

\* The concurrent callers of fetchWithRetry in the app: the favorites that
\* syncFavoritesToSupabase asks getArtistDetails about at the same time.
Callers == {"c1", "c2", "c3"}

\* const MIN_REQUEST_INTERVAL = 200
MIN_REQUEST_INTERVAL == 200

\* fetchWithRetry = async (url, retries = 3, delay = 1000)
DefaultRetries == 3
DefaultDelay == 1000

\* await delay(200) of the discover loop of the edge function
FetchDelay == 200

\* The artist the user of the app adds to the favorites and removes, by name.
Names == {"n1"}

\* No artist id: options?.artistId is undefined, the cache has no entry.
NoId == <<>>

\* No call of syncUserArtist, syncAllUserArtists or removeUserArtist so far.
NoWrite == [call |-> "none", artist_id |-> NoId]

\* Artist ids are strings, written as sequences of characters.  The id the
\* catalog has for an artist name (artist.id of the first attraction).
CatalogId == [n \in Names |-> <<"K", "8", "v">>]

\* 'mock-'
MockPrefix == <<"m", "o", "c", "k", "-">>

\* String(Math.random()): one of its values.
RandomStrings == {<<"0", ".", "3">>}

\* What the catalog does with a request of each caller of the app: the
\* requests of c1 can fail, those of the others are answered.
CatalogAnswers ==
    [c \in Callers |-> IF c = "c1" THEN {"ok", "429", "network_error"} ELSE {"ok"}]

VARIABLES
    config,             \* the environment variables that are set
    catalog,            \* upstream catalog: artist -> sequence of events
    user_artists,       \* table user_artists: set of <<user_id, artist_id>>
    push_token,         \* table users: id -> push_token or NULL
    known_events,       \* table known_events: set of rows
    sent_notifications, \* table sent_notifications: set of rows
    pc,                 \* position of each invocation in syncEventsAndNotify
    artistIds,          \* local: artistIds
    ai,                 \* local: index of the for loop over artistIds
    events,             \* local: events of the current artist
    ei,                 \* local: index of the for loop over events
    unnotifiedEvents,   \* local: unnotifiedEvents
    ui,                 \* local: index of the for loop over unnotifiedEvents
    users,              \* local: users of the current event
    uj,                 \* local: index of the for loop over users
    eventNotifiedToAtLeastOne, \* local flag
    stats,              \* local: stats
    runsStarted,        \* number of invocations so far
    sendOK,             \* history: <<user, event id>> -> successful sends
    ownInsert,          \* history: ticketmaster_id -> times counted in newEventsAdded
    \* History of runs that follow one another (kept by the observer of SpecSeq):
    lastClean,          \* the run that has just finished had no failed fetch and no failed send
    prevClean,          \* lastClean, when the current run started
    fetches,            \* requests the current run sent to the catalog, per artist
    added,              \* ids of the rows of known_events the current run inserted
    recordCalls,        \* <<user, event id>> -> recordSentNotification calls
    resp,               \* the catalog answers the current run got, per artist
    lastResp,           \* the answers of the last finished discover loop
    attempted,          \* pairs the current run called send for
    failed,             \* pairs whose send failed in the current run
    lastFailed,         \* pairs whose send failed in the run that has just finished
    lastFailedOpen,     \* those of them whose event was left notified = false
    prevFailed,         \* lastFailed without a ledger row, when the current run started
    prevFailedOpen,     \* lastFailedOpen without a ledger row, at that time
    \* The timing of catalog requests (SpecClient):
    clock,              \* Date.now(), in milliseconds
    ticks,              \* history: moves of the clock without a timer being due
    lastRequestTime,    \* app: the module variable lastRequestTime
    cpc,                \* app: position of each call of fetchWithRetry
    wakeAt,             \* app: when the timer a call sleeps on is due
    retries,            \* app: parameter retries of each call
    delay,              \* app: parameter delay of each call
    requests,           \* app, history: <<caller, start time>> of every request
    epc,                \* edge function: position in the loop over the artists
    eai,                \* edge function: index of the loop over the artists
    eWake,              \* edge function: when the timer of delay(200) is due
    fetchStarts,        \* edge function, history: start times of the fetches
    \* History of the runs whose store calls can fail (SpecFault):
    storeFaults,        \* number of store calls that have failed
    readFailed,         \* ids of the events whose read of the followers failed, in the current run
    \* The favorites of the app and their copy in user_artists (SpecApp):
    favorites,          \* app: user.favorites, artist names
    authed,             \* app: authUser is set and the user is not a guest
    artistCache,        \* app: the cache entry "artist:<name>" of getArtistDetails
    tasks,              \* app: the asynchronous continuations in flight
    written,            \* history: the last call of syncUserArtist, syncAllUserArtists or removeUserArtist
    dropped             \* history: where the id came from that the checks turned away last

tables == <<known_events, sent_notifications>>
env == <<config, catalog, user_artists, push_token>>
locals == <<pc, artistIds, ai, events, ei, unnotifiedEvents, ui, users, uj,
            eventNotifiedToAtLeastOne, stats>>
history == <<runsStarted, sendOK, ownInsert>>
seqHistory == <<lastClean, prevClean, fetches, added, recordCalls, resp, lastResp, attempted, failed, lastFailed,
                lastFailedOpen, prevFailed, prevFailedOpen>>
client == <<clock, ticks, lastRequestTime, cpc, wakeAt, retries, delay, requests,
            epc, eai, eWake, fetchStarts>>
faultHistory == <<storeFaults, readFailed>>
\* What the runs of the edge function whose store answers leave as it is.
app == <<favorites, authed, artistCache, tasks, written, dropped>>
aside == <<client, faultHistory, app>>
vars == <<env, tables, locals, history, seqHistory, client, faultHistory, app>>

NoStats == [eventsProcessed |-> 0, newEventsAdded |-> 0, notificationsSent |-> 0]
NoResp == [a \in Artists |-> "none"]

Init ==
    /\ config \in ConfigChoices
    /\ catalog \in CatalogChoices
    /\ user_artists \in SubscriptionChoices
    /\ push_token \in TokenChoices
    /\ known_events = {}
    /\ sent_notifications = {}
    /\ pc = [r \in Procs |-> "idle"]
    /\ artistIds = [r \in Procs |-> <<>>]
    /\ ai = [r \in Procs |-> 1]
    /\ events = [r \in Procs |-> <<>>]
    /\ ei = [r \in Procs |-> 1]
    /\ unnotifiedEvents = [r \in Procs |-> <<>>]
    /\ ui = [r \in Procs |-> 1]
    /\ users = [r \in Procs |-> <<>>]
    /\ uj = [r \in Procs |-> 1]
    /\ eventNotifiedToAtLeastOne = [r \in Procs |-> FALSE]
    /\ stats = [r \in Procs |-> NoStats]
    /\ runsStarted = 0
    /\ sendOK = <<>>
    /\ lastClean = FALSE
    /\ prevClean = FALSE
    /\ fetches = [a \in Artists |-> 0]
    /\ added = {}
    /\ recordCalls = <<>>
    /\ ownInsert = <<>>
    /\ resp = NoResp
    /\ lastResp = NoResp
    /\ attempted = {}
    /\ failed = {}
    /\ lastFailed = {}
    /\ lastFailedOpen = {}
    /\ prevFailed = {}
    /\ prevFailedOpen = {}
    /\ clock = MIN_REQUEST_INTERVAL
    /\ ticks = 0
    /\ lastRequestTime = 0
    /\ cpc = [c \in Callers |-> "idle"]
    /\ wakeAt = [c \in Callers |-> 0]
    /\ retries = [c \in Callers |-> 0]
    /\ delay = [c \in Callers |-> 0]
    /\ requests = {}
    /\ epc = "idle"
    /\ eai = 1
    /\ eWake = 0
    /\ fetchStarts = <<>>
    /\ storeFaults = 0
    /\ readFailed = {}
    /\ favorites = {}
    /\ authed = FALSE
    /\ artistCache = [n \in Names |-> NoId]
    /\ tasks = {}
    /\ written = NoWrite
    /\ dropped = "none"


\* ------------------------------------------------- functions of the source


\* Faulty variant of the filter: only the first classification is looked at.
IsSportsFirstOnly(event) ==
    Len(event.classifications) > 0 /\ event.classifications[1] = "Sports"

\* event.classifications?.some(c => c.segment?.name === "Sports")
IsSports(event) ==
    \E i \in DOMAIN event.classifications : event.classifications[i] = "Sports"

\* fetchEventsForArtist: the events of the answer that are not sports events,
\* and [] for a non-OK status, an answer without events or a thrown error.
FetchEventsForArtist(artistId, outcome) ==
    IF outcome = "ok"
    THEN SelectSeq(catalog[artistId], LAMBDA event : ~IsSports(event))
    ELSE <<>>

\* getUniqueArtistIds: the distinct artist_id values of user_artists.
GetUniqueArtistIds ==
    SelectSeq(ArtistOrder, LAMBDA a : \E u \in Users : <<u, a>> \in user_artists)

\* Faulty variant of eventExists: the row is never found.
EventExistsNever(ticketmasterId) == FALSE

\* eventExists: a row with this ticketmaster_id is in known_events.
EventExists(ticketmasterId) ==
    \E row \in known_events : row.ticketmaster_id = ticketmasterId

\* Faulty variant of the insert: ticketmaster_id is not declared UNIQUE.
InsertKnownEventNoUnique(ticketmasterId, artistId) ==
    known_events \cup
        {[id |-> Cardinality(known_events) + 1,
          ticketmaster_id |-> ticketmasterId,
          artist_id |-> artistId,
          notified |-> FALSE]}

\* Faulty variant of the event write: an upsert on ticketmaster_id that
\* writes the row again with the artist of the call and notified = false.
InsertKnownEventUpsert(ticketmasterId, artistId) ==
    IF \E row \in known_events : row.ticketmaster_id = ticketmasterId
    THEN {IF row.ticketmaster_id = ticketmasterId
          THEN [row EXCEPT !.artist_id = artistId, !.notified = FALSE]
          ELSE row : row \in known_events}
    ELSE known_events \cup
            {[id |-> Cardinality(known_events) + 1,
              ticketmaster_id |-> ticketmasterId,
              artist_id |-> artistId,
              notified |-> FALSE]}

\* known_events after insertKnownEvent: the insert adds a row with a fresh id
\* and notified = false; ticketmaster_id is UNIQUE, so the insert of a second
\* row with the same ticketmaster_id is refused (the error is only logged).
InsertKnownEvent(ticketmasterId, artistId) ==
    IF \E row \in known_events : row.ticketmaster_id = ticketmasterId
    THEN known_events
    ELSE known_events \cup
            {[id |-> Cardinality(known_events) + 1,
              ticketmaster_id |-> ticketmasterId,
              artist_id |-> artistId,
              notified |-> FALSE]}

\* getUnnotifiedEvents: the rows with notified = false.
GetUnnotifiedEvents ==
    LET byId == [i \in 1..Cardinality(known_events) |->
                    {row \in known_events : row.id = i}]
        ids == SelectSeq([i \in 1..Cardinality(known_events) |-> i],
                         LAMBDA i : \E row \in byId[i] : ~row.notified)
    IN [k \in 1..Len(ids) |-> CHOOSE row \in byId[ids[k]] : ~row.notified]


\* Faulty variant of getUsersFollowingArtist: the push_token filters are left
\* out.
GetUsersFollowingArtistNoFilter(artistId) ==
    SelectSeq(UserOrder, LAMBDA u : <<u, artistId>> \in user_artists)

\* getUsersFollowingArtist: the followers of the artist whose push_token is
\* neither null nor empty.
GetUsersFollowingArtist(artistId) ==
    SelectSeq(UserOrder,
              LAMBDA u : /\ <<u, artistId>> \in user_artists
                         /\ push_token[u] # NULL
                         /\ push_token[u] # "")

\* Faulty variant of wasNotificationSent: the ledger is not consulted.
WasNotificationSentNever(userId, eventId) == FALSE

\* Faulty variant of wasNotificationSent: the query lacks the event_id filter.
WasNotificationSentAnyEvent(userId, eventId) ==
    \E row \in sent_notifications : row.user_id = userId

\* wasNotificationSent: a row (userId, eventId) is in sent_notifications.
WasNotificationSent(userId, eventId) ==
    \E row \in sent_notifications :
        row.user_id = userId /\ row.event_id = eventId


\* Faulty variant of recordSentNotification: no row is written.
RecordSentNotificationNoRow(userId, eventId) == sent_notifications

\* Faulty variant of the ledger write: the table has no UNIQUE(user_id,
\* event_id), every call adds a row.
RecordSentNotificationNoUnique(userId, eventId) ==
    sent_notifications \cup
        {[id |-> Cardinality(sent_notifications) + 1,
          user_id |-> userId,
          event_id |-> eventId]}

\* Faulty variant of the ledger write: an upsert that replaces the row of the
\* pair by a new one.
RecordSentNotificationUpsert(userId, eventId) ==
    {row \in sent_notifications :
        ~(row.user_id = userId /\ row.event_id = eventId)} \cup
        {[id |-> Cardinality(sent_notifications) + 1,
          user_id |-> userId,
          event_id |-> eventId]}

\* sent_notifications after recordSentNotification: UNIQUE(user_id, event_id)
\* refuses a second row for the pair (the error is only logged).
RecordSentNotification(userId, eventId) ==
    IF \E row \in sent_notifications :
          row.user_id = userId /\ row.event_id = eventId
    THEN sent_notifications
    ELSE sent_notifications \cup
            {[id |-> Cardinality(sent_notifications) + 1,
              user_id |-> userId,
              event_id |-> eventId]}

\* known_events after markEventAsNotified.
MarkEventAsNotified(eventId) ==
    {IF row.id = eventId THEN [row EXCEPT !.notified = TRUE] ELSE row :
        row \in known_events}



\* sendExpoPushNotification: false when the request throws, when the answer
\* is not OK and when the body has data.status "error"; true otherwise.
SendExpoPushNotification(response) ==
    IF response.thrown THEN FALSE
    ELSE IF ~response.ok THEN FALSE
    ELSE IF response.status = "error" THEN FALSE
    ELSE TRUE

\* Faulty variant of the condition: an event without users is not marked.
ShouldMarkFlagOnly(flag, us) == flag

\* Faulty variant of the condition: the event is marked after every pass.
ShouldMarkAlways(flag, us) == TRUE

\* if (eventNotifiedToAtLeastOne || users.length === 0)
ShouldMark(flag, us) == flag \/ Len(us) = 0


\* ------------------------------------------ syncEventsAndNotify, step by step

\* Faulty variant of the handler: the environment is not verified.
MissingConfigNoCheck == "none"

\* The handler's verification of the environment: the message of the error it
\* throws, "none" when it throws none.
MissingConfig ==
    IF "TICKETMASTER_API_KEY" \notin config THEN "TICKETMASTER_API_KEY is not set"
    ELSE IF "SUPABASE_URL" \notin config THEN "SUPABASE_URL is not set"
    ELSE IF "SUPABASE_SERVICE_ROLE_KEY" \notin config
         THEN "SUPABASE_SERVICE_ROLE_KEY is not set"
    ELSE "none"

\* The response of the handler to the POST of slot r, once it has returned:
\* the catch block's for a thrown error, the result of the run otherwise.
Response(r) ==
    IF pc[r] = "error"
    THEN [status |-> 500, success |-> FALSE, error |-> MissingConfig]
    ELSE IF pc[r] = "threw"
    THEN [status |-> 500, success |-> FALSE, error |-> "error is not defined"]
    ELSE [status |-> 200, success |-> TRUE, error |-> "none"]

Active(r) == pc[r] \notin {"idle", "done", "error", "threw"}

\* Faulty variant of the loop: an empty answer ends the loop over the artists.
AfterFetchStop(r, evs) ==
    IF Len(evs) > 0
    THEN [pc |-> "exists", ai |-> ai[r]]
    ELSE [pc |-> "get_unnotified", ai |-> ai[r] + 1]

\* Where the discover loops go once fetchEventsForArtist has returned evs: into
\* the loop over evs, or, evs being empty (also after a failed fetch), to the
\* next artist or the notify phase.
AfterFetch(r, evs) ==
    IF Len(evs) > 0
    THEN [pc |-> "exists", ai |-> ai[r]]
    ELSE IF ai[r] < Len(artistIds[r])
         THEN [pc |-> "fetch", ai |-> ai[r] + 1]
         ELSE [pc |-> "get_unnotified", ai |-> ai[r] + 1]

\* Faulty variant of the discover loops: the notify phase follows the events
\* of each artist instead of the whole loop over the artists.
AfterEventNotifyEarly(r) ==
    IF ei[r] < Len(events[r])
    THEN [pc |-> "exists", ei |-> ei[r] + 1, ai |-> ai[r]]
    ELSE [pc |-> "get_unnotified", ei |-> 1, ai |-> ai[r] + 1]

\* Where the discover loops go after the body for events[ei]: the next event,
\* the next artist, or the notify phase.
AfterEvent(r) ==
    IF ei[r] < Len(events[r])
    THEN [pc |-> "exists", ei |-> ei[r] + 1, ai |-> ai[r]]
    ELSE IF ai[r] < Len(artistIds[r])
         THEN [pc |-> "fetch", ei |-> 1, ai |-> ai[r] + 1]
         ELSE [pc |-> "get_unnotified", ei |-> 1, ai |-> ai[r] + 1]

\* Where the notify loops go after the body for unnotifiedEvents[ui].
AfterNotified(r) ==
    IF ui[r] < Len(unnotifiedEvents[r])
    THEN [pc |-> "get_users", ui |-> ui[r] + 1]
    ELSE [pc |-> "finish", ui |-> ui[r] + 1]

\* Where the notify loops go after the body for users[uj], the flag being flag.
AfterUser(r, flag) ==
    IF uj[r] < Len(users[r])
    THEN [pc |-> "check", uj |-> uj[r] + 1, ui |-> ui[r]]
    ELSE IF ShouldMark(flag, users[r])
         THEN [pc |-> "mark", uj |-> uj[r] + 1, ui |-> ui[r]]
         ELSE [pc |-> AfterNotified(r).pc, uj |-> 1, ui |-> AfterNotified(r).ui]


\* Faulty variant of the fan-out: a failed send leaves the loop over the users.
AfterFailedSendBreak(r) ==
    IF ShouldMark(eventNotifiedToAtLeastOne[r], users[r])
    THEN [pc |-> "mark", uj |-> uj[r] + 1, ui |-> ui[r]]
    ELSE [pc |-> AfterNotified(r).pc, uj |-> 1, ui |-> AfterNotified(r).ui]

\* if (success) { ... } has no else: after a failed send the loop takes the
\* next user.
AfterFailedSend(r) == AfterUser(r, eventNotifiedToAtLeastOne[r])

\* Faulty variant of the fan-out: the send is recorded whatever it returned.
AfterSendRecordAlways(r, success) ==
    [pc |-> "record", uj |-> uj[r], ui |-> ui[r]]

\* Where the fan-out goes once sendExpoPushNotification has returned success:
\* to recordSentNotification, or past it.
AfterSend(r, success) ==
    IF success
    THEN [pc |-> "record", uj |-> uj[r], ui |-> ui[r]]
    ELSE AfterFailedSend(r)

\* The (user, event) pair the fan-out loop of run r is at.
Pair(r) == <<users[r][uj[r]], unnotifiedEvents[r][ui[r]].id>>

LedgerPairs == {<<row.user_id, row.event_id>> : row \in sent_notifications}

\* The entrypoint is invoked with POST and the environment is complete: a new
\* run of syncEventsAndNotify starts in slot r.
StartRun(r) ==
    /\ pc[r] \in {"idle", "done", "threw"}
    /\ MissingConfig = "none"
    /\ runsStarted < MaxRuns
    /\ runsStarted' = runsStarted + 1
    /\ pc' = [pc EXCEPT ![r] = "get_artists"]
    /\ artistIds' = [artistIds EXCEPT ![r] = <<>>]
    /\ ai' = [ai EXCEPT ![r] = 1]
    /\ events' = [events EXCEPT ![r] = <<>>]
    /\ ei' = [ei EXCEPT ![r] = 1]
    /\ unnotifiedEvents' = [unnotifiedEvents EXCEPT ![r] = <<>>]
    /\ ui' = [ui EXCEPT ![r] = 1]
    /\ users' = [users EXCEPT ![r] = <<>>]
    /\ uj' = [uj EXCEPT ![r] = 1]
    /\ eventNotifiedToAtLeastOne' = [eventNotifiedToAtLeastOne EXCEPT ![r] = FALSE]
    /\ stats' = [stats EXCEPT ![r] = NoStats]
    /\ UNCHANGED <<env, tables, sendOK, ownInsert>>


\* The entrypoint is invoked with POST and the verification of the environment
\* throws: the catch block answers, syncEventsAndNotify is not called.
Reject(r) ==
    /\ pc[r] \in {"idle", "error"}
    /\ MissingConfig # "none"
    /\ runsStarted < MaxRuns
    /\ runsStarted' = runsStarted + 1
    /\ pc' = [pc EXCEPT ![r] = "error"]
    /\ UNCHANGED <<env, tables, artistIds, ai, events, ei, unnotifiedEvents, ui,
                   users, uj, eventNotifiedToAtLeastOne, stats, sendOK, ownInsert>>

\* const artistIds = await getUniqueArtistIds()
GetArtists(r) ==
    /\ pc[r] = "get_artists"
    /\ artistIds' = [artistIds EXCEPT ![r] = GetUniqueArtistIds]
    /\ ai' = [ai EXCEPT ![r] = 1]
    /\ pc' = [pc EXCEPT ![r] =
                IF Len(GetUniqueArtistIds) > 0 THEN "fetch" ELSE "get_unnotified"]
    /\ UNCHANGED <<env, tables, events, ei, unnotifiedEvents, ui, users, uj,
                   eventNotifiedToAtLeastOne, stats, history>>

\* await delay(200); const events = await fetchEventsForArtist(artistId)
\* outcome is what the catalog does with the request: "ok" or "fail".
Fetch(r, outcome) ==
    /\ pc[r] = "fetch"
    /\ LET evs == FetchEventsForArtist(artistIds[r][ai[r]], outcome)
       IN /\ events' = [events EXCEPT ![r] = evs]
          /\ ei' = [ei EXCEPT ![r] = 1]
          /\ pc' = [pc EXCEPT ![r] = AfterFetch(r, evs).pc]
          /\ ai' = [ai EXCEPT ![r] = AfterFetch(r, evs).ai]
    /\ UNCHANGED <<env, tables, artistIds, unnotifiedEvents, ui, users, uj,
                   eventNotifiedToAtLeastOne, stats, history>>

\* stats.eventsProcessed++; const exists = await eventExists(event.id)
Exists(r) ==
    /\ pc[r] = "exists"
    /\ stats' = [stats EXCEPT ![r].eventsProcessed = @ + 1]
    /\ IF EventExists(events[r][ei[r]].id)
       THEN /\ pc' = [pc EXCEPT ![r] = AfterEvent(r).pc]
            /\ ei' = [ei EXCEPT ![r] = AfterEvent(r).ei]
            /\ ai' = [ai EXCEPT ![r] = AfterEvent(r).ai]
       ELSE /\ pc' = [pc EXCEPT ![r] = "insert"]
            /\ UNCHANGED <<ei, ai>>
    /\ UNCHANGED <<env, tables, artistIds, events, unnotifiedEvents, ui, users,
                   uj, eventNotifiedToAtLeastOne, history>>

\* await insertKnownEvent(event, artistId, artistName); stats.newEventsAdded++
Insert(r) ==
    /\ pc[r] = "insert"
    /\ known_events' = InsertKnownEvent(events[r][ei[r]].id, artistIds[r][ai[r]])
    /\ stats' = [stats EXCEPT ![r].newEventsAdded = @ + 1]
    /\ ownInsert' = Inc(ownInsert, events[r][ei[r]].id)
    /\ pc' = [pc EXCEPT ![r] = AfterEvent(r).pc]
    /\ ei' = [ei EXCEPT ![r] = AfterEvent(r).ei]
    /\ ai' = [ai EXCEPT ![r] = AfterEvent(r).ai]
    /\ UNCHANGED <<env, sent_notifications, artistIds, events, unnotifiedEvents,
                   ui, users, uj, eventNotifiedToAtLeastOne, runsStarted, sendOK>>

\* const unnotifiedEvents = await getUnnotifiedEvents()
GetUnnotified(r) ==
    /\ pc[r] = "get_unnotified"
    /\ unnotifiedEvents' = [unnotifiedEvents EXCEPT ![r] = GetUnnotifiedEvents]
    /\ ui' = [ui EXCEPT ![r] = 1]
    /\ events' = [events EXCEPT ![r] = <<>>]
    /\ pc' = [pc EXCEPT ![r] =
                IF Len(GetUnnotifiedEvents) > 0 THEN "get_users" ELSE "finish"]
    /\ UNCHANGED <<env, tables, artistIds, ai, ei, users, uj,
                   eventNotifiedToAtLeastOne, stats, history>>

\* const users = await getUsersFollowingArtist(event.artist_id);
\* let eventNotifiedToAtLeastOne = false
GetUsers(r) ==
    /\ pc[r] = "get_users"
    /\ LET us == GetUsersFollowingArtist(unnotifiedEvents[r][ui[r]].artist_id)
       IN /\ users' = [users EXCEPT ![r] = us]
          /\ pc' = [pc EXCEPT ![r] =
                      IF Len(us) > 0 THEN "check"
                      ELSE IF ShouldMark(FALSE, us) THEN "mark"
                      ELSE AfterNotified(r).pc]
          /\ ui' = [ui EXCEPT ![r] =
                      IF Len(us) > 0 \/ ShouldMark(FALSE, us) THEN @
                      ELSE AfterNotified(r).ui]
    /\ uj' = [uj EXCEPT ![r] = 1]
    /\ eventNotifiedToAtLeastOne' = [eventNotifiedToAtLeastOne EXCEPT ![r] = FALSE]
    /\ UNCHANGED <<env, tables, artistIds, ai, events, ei, unnotifiedEvents,
                   stats, history>>

\* const alreadySent = await wasNotificationSent(user.id, event.id)
Check(r) ==
    /\ pc[r] = "check"
    /\ LET after == AfterUser(r, eventNotifiedToAtLeastOne[r])
       IN IF WasNotificationSent(users[r][uj[r]], unnotifiedEvents[r][ui[r]].id)
          THEN /\ pc' = [pc EXCEPT ![r] = after.pc]
               /\ uj' = [uj EXCEPT ![r] = after.uj]
               /\ ui' = [ui EXCEPT ![r] = after.ui]
          ELSE /\ pc' = [pc EXCEPT ![r] = "send"]
               /\ UNCHANGED <<uj, ui>>
    /\ UNCHANGED <<env, tables, artistIds, ai, events, ei, unnotifiedEvents,
                   users, eventNotifiedToAtLeastOne, stats, history>>

\* const success = await sendExpoPushNotification(user.push_token, ...)
\* success is what sendExpoPushNotification returns for the answer of the
\* push service.
Send(r, success) ==
    /\ pc[r] = "send"
    /\ sendOK' = IF success THEN Inc(sendOK, Pair(r)) ELSE sendOK
    /\ pc' = [pc EXCEPT ![r] = AfterSend(r, success).pc]
    /\ uj' = [uj EXCEPT ![r] = AfterSend(r, success).uj]
    /\ ui' = [ui EXCEPT ![r] = AfterSend(r, success).ui]
    /\ UNCHANGED <<env, tables, artistIds, ai, events, ei, unnotifiedEvents,
                   users, eventNotifiedToAtLeastOne, stats, runsStarted,
                   ownInsert>>

\* await recordSentNotification(user.id, event.id); stats.notificationsSent++;
\* eventNotifiedToAtLeastOne = true
Record(r) ==
    /\ pc[r] = "record"
    /\ LET after == AfterUser(r, TRUE)
       IN /\ sent_notifications' = RecordSentNotification(Pair(r)[1], Pair(r)[2])
          /\ pc' = [pc EXCEPT ![r] = after.pc]
          /\ uj' = [uj EXCEPT ![r] = after.uj]
          /\ ui' = [ui EXCEPT ![r] = after.ui]
    /\ stats' = [stats EXCEPT ![r].notificationsSent = @ + 1]
    /\ eventNotifiedToAtLeastOne' = [eventNotifiedToAtLeastOne EXCEPT ![r] = TRUE]
    /\ UNCHANGED <<env, known_events, artistIds, ai, events, ei,
                   unnotifiedEvents, users, history>>

\* await markEventAsNotified(event.id)
Mark(r) ==
    /\ pc[r] = "mark"
    /\ known_events' = MarkEventAsNotified(unnotifiedEvents[r][ui[r]].id)
    /\ pc' = [pc EXCEPT ![r] = AfterNotified(r).pc]
    /\ ui' = [ui EXCEPT ![r] = AfterNotified(r).ui]
    /\ uj' = [uj EXCEPT ![r] = 1]
    /\ UNCHANGED <<env, sent_notifications, artistIds, ai, events, ei,
                   unnotifiedEvents, users, eventNotifiedToAtLeastOne, stats,
                   history>>

\* return stats
Finish(r) ==
    /\ pc[r] = "finish"
    /\ pc' = [pc EXCEPT ![r] = "done"]
    /\ UNCHANGED <<env, tables, artistIds, ai, events, ei, unnotifiedEvents, ui,
                   users, uj, eventNotifiedToAtLeastOne, stats, history>>

\* The invocation is stopped (the function is killed, the platform's time limit
\* is hit) between two awaited calls: its local state is lost, the tables stay.
Interrupt(r) ==
    /\ Active(r)
    /\ pc' = [pc EXCEPT ![r] = "idle"]
    /\ artistIds' = [artistIds EXCEPT ![r] = <<>>]
    /\ ai' = [ai EXCEPT ![r] = 1]
    /\ events' = [events EXCEPT ![r] = <<>>]
    /\ ei' = [ei EXCEPT ![r] = 1]
    /\ unnotifiedEvents' = [unnotifiedEvents EXCEPT ![r] = <<>>]
    /\ ui' = [ui EXCEPT ![r] = 1]
    /\ users' = [users EXCEPT ![r] = <<>>]
    /\ uj' = [uj EXCEPT ![r] = 1]
    /\ eventNotifiedToAtLeastOne' = [eventNotifiedToAtLeastOne EXCEPT ![r] = FALSE]
    /\ stats' = [stats EXCEPT ![r] = NoStats]
    /\ UNCHANGED <<env, tables, history>>

\* One step of run r when runs may overlap: nothing is observed into
\* seqHistory.
Step(r) ==
    \/ GetArtists(r) /\ UNCHANGED <<seqHistory, aside>>
    \/ \E outcome \in {"ok", "fail"} : Fetch(r, outcome) /\ UNCHANGED <<seqHistory, aside>>
    \/ Exists(r) /\ UNCHANGED <<seqHistory, aside>>
    \/ Insert(r) /\ UNCHANGED <<seqHistory, aside>>
    \/ GetUnnotified(r) /\ UNCHANGED <<seqHistory, aside>>
    \/ GetUsers(r) /\ UNCHANGED <<seqHistory, aside>>
    \/ Check(r) /\ UNCHANGED <<seqHistory, aside>>
    \/ \E response \in PushResponses :
          Send(r, SendExpoPushNotification(response)) /\ UNCHANGED <<seqHistory, aside>>
    \/ Record(r) /\ UNCHANGED <<seqHistory, aside>>
    \/ Mark(r) /\ UNCHANGED <<seqHistory, aside>>
    \/ Finish(r) /\ UNCHANGED <<seqHistory, aside>>

\* The overlapping runs work for installations whose environment is complete
\* and where u2 has no push token.
InitOverlap == Init /\ config = RequiredEnv /\ push_token["u2"] = NULL

\* Runs that overlap in time and run to their end.
NextOverlap ==
    \E r \in Procs :
        \/ runsStarted < MaxOverlapRuns /\ StartRun(r) /\ UNCHANGED <<seqHistory, aside>>
        \/ Step(r)

SpecOverlap == InitOverlap /\ [][NextOverlap]_vars

\* Runs that overlap in time, each of which may be stopped part-way.
Next ==
    \E r \in Procs :
        \/ runsStarted < MaxOverlapRuns /\ StartRun(r) /\ UNCHANGED <<seqHistory, aside>>
        \/ Step(r)
        \/ Interrupt(r) /\ UNCHANGED <<seqHistory, aside>>

Spec == InitOverlap /\ [][Next]_vars

\* ------------------------------------------------ runs one after the other

\* The runs of SpecSeq use slot 1 only: a run starts when the one before it
\* has returned or was stopped.  Each step is observed into seqHistory.
ObsStart ==
    /\ prevClean' = lastClean
    /\ added' = {}
    /\ fetches' = [a \in Artists |-> 0]
    /\ resp' = NoResp
    /\ attempted' = {}
    /\ failed' = {}
    /\ prevFailed' = lastFailed \ LedgerPairs
    /\ prevFailedOpen' = lastFailedOpen \ LedgerPairs
    /\ UNCHANGED <<lastClean, recordCalls, lastResp, lastFailed, lastFailedOpen>>

ObsFetch(outcome) ==
    /\ resp' = [resp EXCEPT ![artistIds[1][ai[1]]] = outcome]
    /\ fetches' = [fetches EXCEPT ![artistIds[1][ai[1]]] = @ + 1]
    /\ UNCHANGED <<lastClean, prevClean, added, recordCalls, lastResp, attempted, failed, lastFailed,
                   lastFailedOpen, prevFailed, prevFailedOpen>>

ObsInsert ==
    /\ added' = added \cup {row.id : row \in known_events' \ known_events}
    /\ UNCHANGED <<lastClean, prevClean, fetches, recordCalls, resp, lastResp, attempted, failed, lastFailed,
                   lastFailedOpen, prevFailed, prevFailedOpen>>

ObsGetUnnotified ==
    /\ lastResp' = resp
    /\ UNCHANGED <<lastClean, prevClean, fetches, added, recordCalls, resp, attempted, failed, lastFailed,
                   lastFailedOpen, prevFailed, prevFailedOpen>>

ObsSend(success) ==
    /\ attempted' = attempted \cup {Pair(1)}
    /\ failed' = IF success THEN failed ELSE failed \cup {Pair(1)}
    /\ UNCHANGED <<lastClean, prevClean, fetches, added, recordCalls, resp, lastResp, lastFailed, lastFailedOpen,
                   prevFailed, prevFailedOpen>>

ObsRecord ==
    /\ recordCalls' = Inc(recordCalls, Pair(1))
    /\ UNCHANGED <<lastClean, prevClean, fetches, added, resp, lastResp, attempted, failed, lastFailed,
                   lastFailedOpen, prevFailed, prevFailedOpen>>

ObsFinish ==
    /\ lastClean' = (failed = {} /\ \A a \in Artists : resp[a] # "fail")
    /\ lastFailed' = failed
    /\ lastFailedOpen' =
          {p \in failed : \E row \in known_events : row.id = p[2] /\ ~row.notified}
    /\ UNCHANGED <<prevClean, fetches, added, recordCalls, resp, lastResp, attempted, failed, prevFailed,
                   prevFailedOpen>>

\* A run that was stopped is not a finished run: the run after it is not the
\* run that follows the last finished one.
ObsInterrupt ==
    /\ lastClean' = FALSE
    /\ prevClean' = FALSE
    /\ added' = {}
    /\ fetches' = [a \in Artists |-> 0]
    /\ resp' = NoResp
    /\ attempted' = {}
    /\ failed' = {}
    /\ prevFailed' = {}
    /\ prevFailedOpen' = {}
    /\ lastFailed' = {}
    /\ lastFailedOpen' = {}
    /\ UNCHANGED <<recordCalls, lastResp>>

NextSeq ==
    \/ StartRun(1) /\ ObsStart /\ UNCHANGED aside
    \/ Reject(1) /\ UNCHANGED seqHistory /\ UNCHANGED aside
    \/ GetArtists(1) /\ UNCHANGED seqHistory /\ UNCHANGED aside
    \/ \E outcome \in {"ok", "fail"} : Fetch(1, outcome) /\ ObsFetch(outcome) /\ UNCHANGED aside
    \/ Exists(1) /\ UNCHANGED seqHistory /\ UNCHANGED aside
    \/ Insert(1) /\ ObsInsert /\ UNCHANGED aside
    \/ GetUnnotified(1) /\ ObsGetUnnotified /\ UNCHANGED aside
    \/ GetUsers(1) /\ UNCHANGED seqHistory /\ UNCHANGED aside
    \/ Check(1) /\ UNCHANGED seqHistory /\ UNCHANGED aside
    \/ \E response \in PushResponses :
          /\ Send(1, SendExpoPushNotification(response))
          /\ ObsSend(SendExpoPushNotification(response))
          /\ UNCHANGED aside
    \/ Record(1) /\ ObsRecord /\ UNCHANGED aside
    \/ Mark(1) /\ UNCHANGED seqHistory /\ UNCHANGED aside
    \/ Finish(1) /\ ObsFinish /\ UNCHANGED aside
    \/ Interrupt(1) /\ ObsInterrupt /\ UNCHANGED aside

SpecSeq == Init /\ [][NextSeq]_vars




\* ------------------------------------------- runs whose store calls can fail

\* A call of the store fails: it answers with an error and without data.
StoreFault ==
    /\ storeFaults < MaxStoreFaults
    /\ storeFaults' = storeFaults + 1

\* getUniqueArtistIds gets an error: it returns [], the discover loop has no
\* iteration.
GetArtistsFail(r) ==
    /\ pc[r] = "get_artists"
    /\ artistIds' = [artistIds EXCEPT ![r] = <<>>]
    /\ ai' = [ai EXCEPT ![r] = 1]
    /\ pc' = [pc EXCEPT ![r] = "get_unnotified"]
    /\ UNCHANGED <<env, tables, events, ei, unnotifiedEvents, ui, users, uj,
                   eventNotifiedToAtLeastOne, stats, history>>

\* eventExists gets an error other than "no rows": data is null, it returns
\* false.
ExistsFail(r) ==
    /\ pc[r] = "exists"
    /\ stats' = [stats EXCEPT ![r].eventsProcessed = @ + 1]
    /\ pc' = [pc EXCEPT ![r] = "insert"]
    /\ UNCHANGED <<env, tables, artistIds, ai, events, ei, unnotifiedEvents, ui,
                   users, uj, eventNotifiedToAtLeastOne, history>>

\* The insert of insertKnownEvent gets an error other than the conflict: no
\* row is written, the error is logged, and stats.newEventsAdded++ follows.
InsertFail(r) ==
    /\ pc[r] = "insert"
    /\ stats' = [stats EXCEPT ![r].newEventsAdded = @ + 1]
    /\ ownInsert' = Inc(ownInsert, events[r][ei[r]].id)
    /\ pc' = [pc EXCEPT ![r] = AfterEvent(r).pc]
    /\ ei' = [ei EXCEPT ![r] = AfterEvent(r).ei]
    /\ ai' = [ai EXCEPT ![r] = AfterEvent(r).ai]
    /\ UNCHANGED <<env, tables, artistIds, events, unnotifiedEvents, ui, users,
                   uj, eventNotifiedToAtLeastOne, runsStarted, sendOK>>

\* getUnnotifiedEvents gets an error: it returns [].
GetUnnotifiedFail(r) ==
    /\ pc[r] = "get_unnotified"
    /\ unnotifiedEvents' = [unnotifiedEvents EXCEPT ![r] = <<>>]
    /\ ui' = [ui EXCEPT ![r] = 1]
    /\ events' = [events EXCEPT ![r] = <<>>]
    /\ pc' = [pc EXCEPT ![r] = "finish"]
    /\ UNCHANGED <<env, tables, artistIds, ai, ei, users, uj,
                   eventNotifiedToAtLeastOne, stats, history>>

\* The user_artists query of getUsersFollowingArtist gets an error: the
\* function returns [], and users.length === 0 holds in the caller.
GetUsersArtistsFail(r) ==
    /\ pc[r] = "get_users"
    /\ users' = [users EXCEPT ![r] = <<>>]
    /\ pc' = [pc EXCEPT ![r] =
                IF ShouldMark(FALSE, <<>>) THEN "mark" ELSE AfterNotified(r).pc]
    /\ ui' = [ui EXCEPT ![r] =
                IF ShouldMark(FALSE, <<>>) THEN @ ELSE AfterNotified(r).ui]
    /\ uj' = [uj EXCEPT ![r] = 1]
    /\ eventNotifiedToAtLeastOne' = [eventNotifiedToAtLeastOne EXCEPT ![r] = FALSE]
    /\ UNCHANGED <<env, tables, artistIds, ai, events, ei, unnotifiedEvents,
                   stats, history>>

\* The users query of getUsersFollowingArtist gets an error, the artist having
\* followers: console.error(..., error) names a variable that is not defined,
\* the ReferenceError leaves getUsersFollowingArtist and syncEventsAndNotify,
\* and the catch block of the handler answers.
GetUsersTokensFail(r) ==
    /\ pc[r] = "get_users"
    /\ \E u \in Users : <<u, unnotifiedEvents[r][ui[r]].artist_id>> \in user_artists
    /\ pc' = [pc EXCEPT ![r] = "threw"]
    /\ UNCHANGED <<env, tables, artistIds, ai, events, ei, unnotifiedEvents, ui,
                   users, uj, eventNotifiedToAtLeastOne, stats, history>>

\* wasNotificationSent gets an error other than "no rows": it returns false.
CheckFail(r) ==
    /\ pc[r] = "check"
    /\ pc' = [pc EXCEPT ![r] = "send"]
    /\ UNCHANGED <<env, tables, artistIds, ai, events, ei, unnotifiedEvents, ui,
                   users, uj, eventNotifiedToAtLeastOne, stats, history>>

\* The insert of recordSentNotification gets an error other than the conflict:
\* no row is written, the error is logged, the caller goes on as after a
\* recorded send.
RecordFail(r) ==
    /\ pc[r] = "record"
    /\ pc' = [pc EXCEPT ![r] = AfterUser(r, TRUE).pc]
    /\ uj' = [uj EXCEPT ![r] = AfterUser(r, TRUE).uj]
    /\ ui' = [ui EXCEPT ![r] = AfterUser(r, TRUE).ui]
    /\ stats' = [stats EXCEPT ![r].notificationsSent = @ + 1]
    /\ eventNotifiedToAtLeastOne' = [eventNotifiedToAtLeastOne EXCEPT ![r] = TRUE]
    /\ UNCHANGED <<env, tables, artistIds, ai, events, ei, unnotifiedEvents,
                   users, history>>

\* The update of markEventAsNotified gets an error: the row stays as it is.
MarkFail(r) ==
    /\ pc[r] = "mark"
    /\ pc' = [pc EXCEPT ![r] = AfterNotified(r).pc]
    /\ ui' = [ui EXCEPT ![r] = AfterNotified(r).ui]
    /\ uj' = [uj EXCEPT ![r] = 1]
    /\ UNCHANGED <<env, tables, artistIds, ai, events, ei, unnotifiedEvents,
                   users, eventNotifiedToAtLeastOne, stats, history>>

\* The runs of SpecFault follow one another in slot 1 and run to their end,
\* in an installation whose environment is complete.
InitFault == Init /\ config = RequiredEnv

\* A step in which the store answers.
NextFaultFree ==
    \/ /\ runsStarted < MaxFaultRuns
       /\ StartRun(1) /\ ObsStart
       /\ readFailed' = {}
       /\ UNCHANGED <<client, app, storeFaults>>
    \/ GetArtists(1) /\ UNCHANGED seqHistory /\ UNCHANGED aside
    \/ \E outcome \in {"ok", "fail"} : Fetch(1, outcome) /\ ObsFetch(outcome) /\ UNCHANGED aside
    \/ Exists(1) /\ UNCHANGED seqHistory /\ UNCHANGED aside
    \/ Insert(1) /\ ObsInsert /\ UNCHANGED aside
    \/ GetUnnotified(1) /\ ObsGetUnnotified /\ UNCHANGED aside
    \/ GetUsers(1) /\ UNCHANGED seqHistory /\ UNCHANGED aside
    \/ Check(1) /\ UNCHANGED seqHistory /\ UNCHANGED aside
    \/ \E response \in PushResponses :
          /\ Send(1, SendExpoPushNotification(response))
          /\ ObsSend(SendExpoPushNotification(response))
          /\ UNCHANGED aside
    \/ Record(1) /\ ObsRecord /\ UNCHANGED aside
    \/ Mark(1) /\ UNCHANGED seqHistory /\ UNCHANGED aside
    \/ Finish(1) /\ ObsFinish /\ UNCHANGED aside

\* A step in which the store fails.
NextFaulty ==
    \/ GetArtistsFail(1) /\ StoreFault /\ UNCHANGED <<seqHistory, client, app, readFailed>>
    \/ ExistsFail(1) /\ StoreFault /\ UNCHANGED <<seqHistory, client, app, readFailed>>
    \/ InsertFail(1) /\ StoreFault /\ ObsInsert /\ UNCHANGED <<client, app, readFailed>>
    \/ GetUnnotifiedFail(1) /\ StoreFault /\ ObsGetUnnotified /\ UNCHANGED <<client, app, readFailed>>
    \/ /\ GetUsersArtistsFail(1) /\ StoreFault
       /\ readFailed' = readFailed \cup {unnotifiedEvents[1][ui[1]].id}
       /\ UNCHANGED <<seqHistory, client, app>>
    \/ /\ GetUsersTokensFail(1) /\ StoreFault
       /\ readFailed' = readFailed \cup {unnotifiedEvents[1][ui[1]].id}
       /\ UNCHANGED <<seqHistory, client, app>>
    \/ CheckFail(1) /\ StoreFault /\ UNCHANGED <<seqHistory, client, app, readFailed>>
    \/ RecordFail(1) /\ StoreFault /\ ObsRecord /\ UNCHANGED <<client, app, readFailed>>
    \/ MarkFail(1) /\ StoreFault /\ UNCHANGED <<seqHistory, client, app, readFailed>>

NextFault == NextFaultFree \/ NextFaulty

SpecFault == InitFault /\ [][NextFault]_vars

\* ---------------------------------------------- timing of catalog requests

\* The state of the edge function's tables and runs: the requests of
\* SpecClient are timed while it stays as it is.
sync == <<env, tables, locals, history, seqHistory, faultHistory, app>>

\* The timers that are set and not yet due.
Deadlines ==
    {wakeAt[c] : c \in {x \in Callers : cpc[x] \in {"rate_wait", "backoff"}}}
        \cup (IF epc = "delay" THEN {eWake} ELSE {})

\* Time passes until the next timer is due; at most MaxTicks times it passes
\* by half the request interval instead, when no timer is due before.
Advance ==
    /\ \A d \in Deadlines : d > clock
    /\ \/ /\ Deadlines # {}
          /\ clock' = CHOOSE d \in Deadlines : \A e \in Deadlines : d <= e
          /\ UNCHANGED ticks
       \/ /\ ticks < MaxTicks
          /\ \A d \in Deadlines : clock + (MIN_REQUEST_INTERVAL \div 2) <= d
          /\ clock' = clock + (MIN_REQUEST_INTERVAL \div 2)
          /\ ticks' = ticks + 1
    /\ UNCHANGED <<lastRequestTime, cpc, wakeAt, retries, delay, requests,
                   epc, eai, eWake, fetchStarts>>

\* await waitForRateLimit(), up to the first await, in the call of c: when the
\* last request is less than MIN_REQUEST_INTERVAL ago the call sleeps for the
\* rest of the interval; otherwise it sets lastRequestTime and its request
\* starts at once.
EnterRateLimit(c) ==
    IF clock - lastRequestTime < MIN_REQUEST_INTERVAL
    THEN /\ cpc' = [cpc EXCEPT ![c] = "rate_wait"]
         /\ wakeAt' = [wakeAt EXCEPT ![c] =
                          clock + (MIN_REQUEST_INTERVAL - (clock - lastRequestTime))]
         /\ UNCHANGED <<lastRequestTime, requests>>
    ELSE /\ cpc' = [cpc EXCEPT ![c] = "in_flight"]
         /\ lastRequestTime' = clock
         /\ requests' = requests \cup {<<c, clock>>}
         /\ UNCHANGED wakeAt

\* getArtistDetails calls fetchWithRetry(url) for caller c.
Call(c) ==
    /\ cpc[c] = "idle"
    /\ epc = "idle"
    /\ retries' = [retries EXCEPT ![c] = DefaultRetries]
    /\ delay' = [delay EXCEPT ![c] = DefaultDelay]
    /\ EnterRateLimit(c)
    /\ UNCHANGED <<clock, ticks, epc, eai, eWake, fetchStarts>>

\* The timer of waitForRateLimit fires: lastRequestTime = Date.now(), and the
\* request of c starts.
RateWake(c) ==
    /\ cpc[c] = "rate_wait"
    /\ clock >= wakeAt[c]
    /\ lastRequestTime' = clock
    /\ requests' = requests \cup {<<c, clock>>}
    /\ cpc' = [cpc EXCEPT ![c] = "in_flight"]
    /\ UNCHANGED <<clock, ticks, wakeAt, retries, delay, epc, eai, eWake,
                   fetchStarts>>

\* The request of c is answered: a response other than 429 is returned; on a
\* 429 and on a thrown error the call sleeps for delay when retries are left,
\* and throws when none is.
Answer(c, answer) ==
    /\ cpc[c] = "in_flight"
    /\ answer \in CatalogAnswers[c]
    /\ IF answer = "ok"
       THEN /\ cpc' = [cpc EXCEPT ![c] = "returned"]
            /\ UNCHANGED wakeAt
       ELSE IF retries[c] > 0
       THEN /\ cpc' = [cpc EXCEPT ![c] = "backoff"]
            /\ wakeAt' = [wakeAt EXCEPT ![c] = clock + delay[c]]
       ELSE /\ cpc' = [cpc EXCEPT ![c] = "threw"]
            /\ UNCHANGED wakeAt
    /\ UNCHANGED <<clock, ticks, lastRequestTime, retries, delay, requests, epc, eai,
                   eWake, fetchStarts>>

\* The timer of the backoff fires: return fetchWithRetry(url, retries - 1,
\* delay * 2).
BackoffWake(c) ==
    /\ cpc[c] = "backoff"
    /\ clock >= wakeAt[c]
    /\ retries' = [retries EXCEPT ![c] = @ - 1]
    /\ delay' = [delay EXCEPT ![c] = @ * 2]
    /\ EnterRateLimit(c)
    /\ UNCHANGED <<clock, ticks, epc, eai, eWake, fetchStarts>>

\* The discover loop of the edge function takes an artist: await delay(200).
EdgeDelay ==
    /\ \/ epc = "idle" /\ \A c \in Callers : cpc[c] = "idle"
       \/ epc = "next"
    /\ epc' = "delay"
    /\ eWake' = clock + FetchDelay
    /\ UNCHANGED <<clock, ticks, lastRequestTime, cpc, wakeAt, retries, delay, requests,
                   eai, fetchStarts>>

\* The timer of delay(200) fires: fetchEventsForArtist sends its request.
EdgeFetch ==
    /\ epc = "delay"
    /\ clock >= eWake
    /\ fetchStarts' = Append(fetchStarts, clock)
    /\ epc' = "fetching"
    /\ UNCHANGED <<clock, ticks, lastRequestTime, cpc, wakeAt, retries, delay, requests,
                   eai, eWake>>

\* The request is answered and the events of the artist are worked off: the
\* loop goes to the next artist.
EdgeNext ==
    /\ epc = "fetching"
    /\ eai' = eai + 1
    /\ epc' = IF eai < Len(ArtistOrder) THEN "next" ELSE "done"
    /\ UNCHANGED <<clock, ticks, lastRequestTime, cpc, wakeAt, retries, delay, requests,
                   eWake, fetchStarts>>

\* One process and its clock: the app with its concurrent callers, or the
\* discover loop of one run of the edge function.
InitClient ==
    /\ Init
    /\ config = RequiredEnv
    /\ catalog = CHOOSE k \in CatalogChoices : TRUE
    /\ user_artists = CHOOSE s \in SubscriptionChoices : TRUE
    /\ push_token = CHOOSE t \in TokenChoices : TRUE

NextClient ==
    \/ Advance /\ UNCHANGED sync
    \/ \E c \in Callers : Call(c) /\ UNCHANGED sync
    \/ \E c \in Callers : RateWake(c) /\ UNCHANGED sync
    \/ \E c \in Callers : \E answer \in {"ok", "429", "network_error"} : Answer(c, answer) /\ UNCHANGED sync
    \/ \E c \in Callers : BackoffWake(c) /\ UNCHANGED sync
    \/ EdgeDelay /\ UNCHANGED sync
    \/ EdgeFetch /\ UNCHANGED sync
    \/ EdgeNext /\ UNCHANGED sync

SpecClient == InitClient /\ [][NextClient]_vars

\* ------------------------------------------- the favorites of the app

\* What SpecApp leaves as it is.
backend == <<env, tables, locals, history, seqHistory, client, faultHistory>>

\* s.startsWith(prefix)
StartsWith(s, prefix) ==
    /\ Len(s) >= Len(prefix)
    /\ SubSeq(s, 1, Len(prefix)) = prefix

\* The fallback of getArtistDetails: id: `mock-${Math.random()}`
Fallback(random) == MockPrefix \o random

\* Faulty variant of the check on the details: every id is taken.
DetailsUsableAlways(id) == TRUE

\* details && !details.id.startsWith('mock-')
DetailsUsable(id) == ~StartsWith(id, MockPrefix)

\* artistIdToSync of toggleFavorite: options?.artistId when it is given, else
\* the id of the details when they pass the check, else undefined.
ArtistIdToSync(t) ==
    IF t.from = "option" THEN t.id
    ELSE IF DetailsUsable(t.id) THEN t.id
    ELSE NoId

\* artistIdToSync && !artistIdToSync.startsWith('mock-')
CanSync(id) == id # NoId /\ ~StartsWith(id, MockPrefix)

\* A continuation that is about to call getArtistDetails(name) and then call.
LookupTask(site, call, name) ==
    [site |-> site, call |-> call, name |-> name, pc |-> "lookup",
     id |-> NoId, from |-> "none"]

\* What updateUser starts for a favorite that was added or removed.
UpdateUserTask(name) ==
    IF name \in favorites
    THEN LookupTask("updateUser", "removeUserArtist", name)
    ELSE LookupTask("syncFavoritesToSupabase", "syncAllUserArtists", name)

\* What toggleFavorite goes on with after updateUser: with options.artistId,
\* or with a call of getArtistDetails.
ToggleTask(name, option) ==
    LET call == IF name \in favorites THEN "removeUserArtist" ELSE "syncUserArtist"
    IN IF option # NoId
       THEN [site |-> "toggleFavorite", call |-> call, name |-> name,
             pc |-> "got", id |-> option, from |-> "option"]
       ELSE LookupTask("toggleFavorite", call, name)

\* toggleFavorite(artistName, options): the favorite is added or removed in
\* updateUser, which starts the sync of the change when the user is
\* authenticated; then toggleFavorite syncs the change itself.  The caller
\* passes no artistId, the catalog's, or the id of the details it was shown.
ToggleFavorite(name, option) ==
    /\ favorites' = IF name \in favorites THEN favorites \ {name}
                    ELSE favorites \cup {name}
    /\ tasks' = IF authed
                THEN tasks \cup {UpdateUserTask(name), ToggleTask(name, option)}
                ELSE tasks
    /\ Cardinality(tasks') <= MaxTasks
    /\ UNCHANGED <<authed, artistCache, written, dropped>>

\* handleSignIn: the favorites of the device are synced in the background.
SignIn ==
    /\ ~authed
    /\ authed' = TRUE
    /\ tasks' = tasks \cup
                  {LookupTask("syncFavoritesToSupabase", "syncAllUserArtists", n) :
                      n \in favorites}
    /\ Cardinality(tasks') <= MaxTasks
    /\ UNCHANGED <<favorites, artistCache, written, dropped>>

\* logout, and the user goes on as a guest: the preferences are cleared.
Logout ==
    /\ authed
    /\ authed' = FALSE
    /\ favorites' = {}
    /\ UNCHANGED <<artistCache, tasks, written, dropped>>

\* getArtistDetails finds the cache entry.
LookupHit(t) ==
    /\ t.pc = "lookup"
    /\ artistCache[t.name] # NoId
    /\ tasks' = (tasks \ {t}) \cup
                  {[t EXCEPT !.pc = "got", !.id = artistCache[t.name],
                             !.from = "cache"]}
    /\ UNCHANGED <<favorites, authed, artistCache, written, dropped>>

\* getArtistDetails finds no cache entry and awaits fetchWithRetry.
LookupMiss(t) ==
    /\ t.pc = "lookup"
    /\ artistCache[t.name] = NoId
    /\ tasks' = (tasks \ {t}) \cup {[t EXCEPT !.pc = "fetching"]}
    /\ UNCHANGED <<favorites, authed, artistCache, written, dropped>>

\* The catalog answers with the artist: the result is cached and returned.
FetchFound(t) ==
    /\ t.pc = "fetching"
    /\ artistCache' = [artistCache EXCEPT ![t.name] = CatalogId[t.name]]
    /\ tasks' = (tasks \ {t}) \cup
                  {[t EXCEPT !.pc = "got", !.id = CatalogId[t.name],
                             !.from = "fresh"]}
    /\ UNCHANGED <<favorites, authed, written, dropped>>

\* The lookup fails (no answer, an answer that is not OK, no attraction): the
\* catch block makes the fallback, caches it for a minute and returns it.
FetchFailed(t, random) ==
    /\ t.pc = "fetching"
    /\ artistCache' = [artistCache EXCEPT ![t.name] = Fallback(random)]
    /\ tasks' = (tasks \ {t}) \cup
                  {[t EXCEPT !.pc = "got", !.id = Fallback(random),
                             !.from = "fresh"]}
    /\ UNCHANGED <<favorites, authed, written, dropped>>

\* getFromCache finds the entry older than its time to live and deletes it.
Expire(name) ==
    /\ artistCache[name] # NoId
    /\ artistCache' = [artistCache EXCEPT ![name] = NoId]
    /\ UNCHANGED <<favorites, authed, tasks, written, dropped>>

\* The continuation has its id: toggleFavorite syncs artistIdToSync when it
\* is valid, updateUser and syncFavoritesToSupabase sync the id of details
\* that pass the check.
Use(t) ==
    /\ t.pc = "got"
    /\ LET id == IF t.site = "toggleFavorite" THEN ArtistIdToSync(t) ELSE t.id
           ok == IF t.site = "toggleFavorite" THEN CanSync(id) ELSE DetailsUsable(id)
       IN /\ written' = IF ok THEN [call |-> t.call, artist_id |-> id] ELSE written
          /\ dropped' = IF ok THEN dropped ELSE t.from
    /\ tasks' = tasks \ {t}
    /\ UNCHANGED <<favorites, authed, artistCache>>

NextApp ==
    \/ \E name \in Names :
          \E option \in {NoId, CatalogId[name], artistCache[name]} :
              ToggleFavorite(name, option) /\ UNCHANGED backend
    \/ SignIn /\ UNCHANGED backend
    \/ Logout /\ UNCHANGED backend
    \/ \E t \in tasks : LookupHit(t) /\ UNCHANGED backend
    \/ \E t \in tasks : LookupMiss(t) /\ UNCHANGED backend
    \/ \E t \in tasks : FetchFound(t) /\ UNCHANGED backend
    \/ \E t \in tasks : \E random \in RandomStrings :
          FetchFailed(t, random) /\ UNCHANGED backend
    \/ \E name \in Names : Expire(name) /\ UNCHANGED backend
    \/ \E t \in tasks : Use(t) /\ UNCHANGED backend

\* The app on one device; the edge function is left aside.
InitApp ==
    /\ Init
    /\ config = RequiredEnv
    /\ catalog = CHOOSE c \in CatalogChoices : TRUE
    /\ user_artists = CHOOSE s \in SubscriptionChoices : TRUE
    /\ push_token = CHOOSE p \in TokenChoices : TRUE

SpecApp == InitApp /\ [][NextApp]_vars

\* ------------------------------------------------------------------ claims

\* C1: across runs that follow one another, each of which may be stopped at any
\* point, recordSentNotification is called at most once for every (user, event)
\* pair.  (SpecSeq)
C1_RecordAtMostOnce ==
    \A p \in DOMAIN recordCalls : recordCalls[p] <= 1

\* A run sent to a user and was stopped before it recorded the send; a later
\* run sent again and recorded it.
C1_Witness ==
    \E p \in DOMAIN recordCalls :
        recordCalls[p] = 1 /\ Count(sendOK, p) >= 2 /\ p \in LedgerPairs

\* C2: across runs that follow one another, each of which may be stopped at any
\* point, sendExpoPushNotification succeeds at most once for every
\* (user, event) pair.  (SpecSeq)
C2_SendAtMostOnce ==
    \A p \in DOMAIN sendOK : sendOK[p] <= 1

\* C3: two runs that overlap in time never both push the same user for the
\* same event.  (SpecOverlap: no run is stopped, so a second push to a pair
\* can only come from the overlap.)
C3_NoDoubleNotifyOverlap ==
    \A u \in Users : \A row \in known_events : Count(sendOK, <<u, row.id>>) < 2

\* C4: when two runs discover the same upstream event at the same time,
\* known_events has exactly one row for it and at most one run counts the
\* event in newEventsAdded.  (SpecOverlap)
C4_OneRowOneOwner ==
    \A tm \in DOMAIN ownInsert :
        /\ Cardinality({row \in known_events : row.ticketmaster_id = tm}) = 1
        /\ ownInsert[tm] <= 1

\* C5: known_events never holds two rows with the same ticketmaster_id,
\* whether the runs follow one another, overlap or are stopped.  (Spec)
C5_UniqueTicketmasterId ==
    \A r1, r2 \in known_events :
        r1.ticketmaster_id = r2.ticketmaster_id => r1 = r2

\* Two runs both went through insertKnownEvent for the same upstream event.
C5_Witness ==
    \E tm \in DOMAIN ownInsert :
        /\ ownInsert[tm] >= 2
        /\ Cardinality({row \in known_events : row.ticketmaster_id = tm}) = 1

\* C6: when a discover loop ends having got the same catalog answers as the
\* discover loop finished before it, it has found every event to exist and
\* has inserted nothing: newEventsAdded is 0.  (SpecSeq)
C6_SecondDiscoverAddsNothing ==
    (pc[1] = "get_unnotified" /\ resp = lastResp) =>
        /\ stats[1].newEventsAdded = 0
        /\ \A a \in Artists :
              \A i \in DOMAIN FetchEventsForArtist(a, resp[a]) :
                  EventExists(FetchEventsForArtist(a, resp[a])[i].id)

\* A second discover loop went over at least one event and added none.
C6_Witness ==
    /\ pc[1] = "get_unnotified"
    /\ resp = lastResp
    /\ stats[1].eventsProcessed > 0
    /\ stats[1].newEventsAdded = 0

\* C7: at the end of the discover loop every distinct artist has been fetched,
\* and every event returned for an artist whose fetch succeeded has a row in
\* known_events, whatever happened to the fetches of the other artists.
\* (SpecSeq)
C7_FetchFailureIsolated ==
    pc[1] = "get_unnotified" =>
        \A i \in DOMAIN artistIds[1] :
            LET a == artistIds[1][i]
            IN /\ resp[a] # "none"
               /\ resp[a] = "ok" =>
                     \A j \in DOMAIN FetchEventsForArtist(a, "ok") :
                         EventExists(FetchEventsForArtist(a, "ok")[j].id)

\* The fetch for the first artist failed and the run went on to insert an
\* event of the second artist.
C7_Witness ==
    /\ pc[1] = "get_unnotified"
    /\ resp["a1"] = "fail"
    /\ resp["a2"] = "ok"
    /\ stats[1].newEventsAdded > 0

\* The users run 1 called send for, for the k-th of its unnotified events.
AttemptedFor(k) ==
    {u \in Users : <<u, unnotifiedEvents[1][k].id>> \in attempted}

\* The pass of run 1 over the k-th of its unnotified events is over.
PassOver(k) ==
    \/ pc[1] \in {"finish", "done"}
    \/ pc[1] \in {"get_users", "check", "send", "record", "mark"} /\ k < ui[1]

\* The pass over the k-th event called send and every send failed.
AllSendsFailed(k) ==
    /\ AttemptedFor(k) # {}
    /\ \A u \in AttemptedFor(k) : <<u, unnotifiedEvents[1][k].id>> \in failed

\* C8: after a pass over an unnotified event in which every send failed, the
\* event has notified = false and no ledger row for the users of the pass.
\* (SpecSeq)
C8_AllFailedNotMarked ==
    \A k \in DOMAIN unnotifiedEvents[1] :
        (PassOver(k) /\ AllSendsFailed(k)) =>
            /\ \A row \in known_events :
                  row.id = unnotifiedEvents[1][k].id => ~row.notified
            /\ \A u \in AttemptedFor(k) :
                  <<u, unnotifiedEvents[1][k].id>> \notin LedgerPairs

\* A run returned after a pass in which every send failed.
C8_Witness ==
    /\ pc[1] = "done"
    /\ \E k \in DOMAIN unnotifiedEvents[1] : AllSendsFailed(k)

\* C9: a run that returns has called send for every pair whose send failed in
\* the run finished just before it and whose event that run left with
\* notified = false.  (SpecSeq)
C9_RetryNextRun ==
    pc[1] = "done" => prevFailedOpen \subseteq attempted

\* A run returned that followed a run with a failed send on an open event.
C9_Witness ==
    pc[1] = "done" /\ prevFailedOpen # {}

\* C10: a failed send leaves the pair without a ledger row, and the run after
\* the failing one calls send for the pair again, whatever happened to the
\* other sends of the failing run.  (SpecSeq)
C10_FailedAlwaysRetried ==
    /\ failed \cap LedgerPairs = {}
    /\ pc[1] = "done" => prevFailed \subseteq attempted

\* The k-th unnotified event of run 1 has no follower with a push token.
NoRecipient(k) ==
    GetUsersFollowingArtist(unnotifiedEvents[1][k].artist_id) = <<>>

\* C11: once the notify pass of a run has gone over an unnotified event whose
\* artist has no follower with a push token, the event has notified = true and
\* the run has called sendExpoPushNotification for nobody for it.  (SpecSeq)
C11_NoRecipientMarkedAtOnce ==
    \A k \in DOMAIN unnotifiedEvents[1] :
        (PassOver(k) /\ NoRecipient(k)) =>
            /\ \A row \in known_events :
                  row.id = unnotifiedEvents[1][k].id => row.notified
            /\ AttemptedFor(k) = {}
            /\ \A u \in Users : Count(sendOK, <<u, unnotifiedEvents[1][k].id>>) = 0

\* The first run returned after its pass over an event that a user without a
\* push token follows and no one else.
C11_Witness ==
    /\ pc[1] = "done"
    /\ runsStarted = 1
    /\ \E k \in DOMAIN unnotifiedEvents[1] :
          /\ NoRecipient(k)
          /\ \E u \in Users : <<u, unnotifiedEvents[1][k].artist_id>> \in user_artists
          /\ \E row \in known_events :
                row.id = unnotifiedEvents[1][k].id /\ row.notified

\* C12: when a run is about to call markEventAsNotified for an event, the
\* fan-out of the pass had no user, or every user of the pass has had a
\* successful send for the event.  (SpecSeq)
C12_MarkedOnlyWhenAllDelivered ==
    pc[1] = "mark" =>
        \/ Len(users[1]) = 0
        \/ \A i \in DOMAIN users[1] :
              Count(sendOK, <<users[1][i], unnotifiedEvents[1][ui[1]].id>>) >= 1

\* The pass over the k-th event had a send that failed.
SomeSendFailed(k) ==
    \E u \in Users : <<u, unnotifiedEvents[1][k].id>> \in failed

\* C13: sendExpoPushNotification returns false when the request throws, when
\* the answer is not OK and when the body reports the status "error"; and once
\* a pass in which a send failed is over, every follower with a push token of
\* the event's artist had the ledger check answer "already sent" or had
\* sendExpoPushNotification called, in that pass.  (SpecSeq)
C13_FailedSendDoesNotStopFanOut ==
    /\ \A response \in PushResponses :
          (response.thrown \/ ~response.ok \/ response.status = "error") =>
              ~SendExpoPushNotification(response)
    /\ \A k \in DOMAIN unnotifiedEvents[1] :
          (PassOver(k) /\ SomeSendFailed(k)) =>
              LET us == GetUsersFollowingArtist(unnotifiedEvents[1][k].artist_id)
              IN \A i \in DOMAIN us :
                    \/ <<us[i], unnotifiedEvents[1][k].id>> \in attempted
                    \/ <<us[i], unnotifiedEvents[1][k].id>> \in LedgerPairs

\* The send to the first user of a pass failed, and the pass went on to send to
\* the second user, with success.
C13_Witness ==
    /\ pc[1] = "done"
    /\ \E k \in DOMAIN unnotifiedEvents[1] :
          /\ <<"u1", unnotifiedEvents[1][k].id>> \in failed
          /\ <<"u2", unnotifiedEvents[1][k].id>> \in attempted \ failed

\* C14: every row of sent_notifications is for a pair that has had a
\* successful send, recordSentNotification has been called for a pair at most
\* as often as sendExpoPushNotification has returned true for it, and a pair
\* whose sends have all failed has no row.  (SpecSeq)
C14_RecordOnlyAfterSuccess ==
    /\ \A p \in LedgerPairs : Count(sendOK, p) >= 1
    /\ \A p \in DOMAIN recordCalls : recordCalls[p] <= Count(sendOK, p)
    /\ pc[1] = "record" => Count(recordCalls, Pair(1)) < Count(sendOK, Pair(1))

\* A pass returned in which a send failed and another was recorded.
C14_Witness ==
    /\ pc[1] = "done"
    /\ \E p \in failed : p \notin LedgerPairs /\ Count(sendOK, p) = 0
    /\ \E p \in LedgerPairs : p \in attempted

\* The user has no push token to send to.
NoToken(u) == push_token[u] = NULL \/ push_token[u] = ""

\* C15: the user the fan-out loop is at has a push token that is neither null
\* nor empty, and a user without such a token has had no call of
\* sendExpoPushNotification and has no row in sent_notifications.  (SpecSeq)
C15_NoSendWithoutToken ==
    /\ pc[1] \in {"check", "send", "record"} => ~NoToken(users[1][uj[1]])
    /\ \A u \in Users :
          NoToken(u) =>
              \A row \in known_events :
                  /\ <<u, row.id>> \notin attempted
                  /\ <<u, row.id>> \notin LedgerPairs
                  /\ Count(sendOK, <<u, row.id>>) = 0

\* A run returned after the pass over an event of an artist that a user with
\* an empty push token follows and that another follower was sent.
C15_Witness ==
    /\ pc[1] = "done"
    /\ \E row \in known_events :
          /\ \E u \in Users :
                <<u, row.artist_id>> \in user_artists /\ push_token[u] = ""
          /\ \E u \in Users : <<u, row.id>> \in LedgerPairs

NothingFailed ==
    /\ failed = {}
    /\ \A a \in Artists : resp[a] # "fail"

\* C17: when a run returns in which no fetch and no send failed, every event
\* the run inserted has notified = true; every follower of the event's artist
\* with a push token has exactly one ledger row for the event and has had
\* exactly one successful send for it, in this run; and every other user has
\* no ledger row and no send for it.  (SpecSeq)
C17_CleanRunNotifiesEveryFollower ==
    (pc[1] = "done" /\ NothingFailed) =>
        \A row \in known_events :
            row.id \in added =>
                /\ row.notified
                /\ \A u \in Users :
                      IF <<u, row.artist_id>> \in user_artists /\ ~NoToken(u)
                      THEN /\ Cardinality({l \in sent_notifications :
                                  l.user_id = u /\ l.event_id = row.id}) = 1
                           /\ Count(sendOK, <<u, row.id>>) = 1
                           /\ <<u, row.id>> \in attempted
                      ELSE /\ <<u, row.id>> \notin LedgerPairs
                           /\ Count(sendOK, <<u, row.id>>) = 0
                           /\ <<u, row.id>> \notin attempted

\* A run without failure returned that inserted an event of an artist with a
\* follower who has a push token and a follower who has none.
C17_Witness ==
    /\ pc[1] = "done"
    /\ NothingFailed
    /\ \E row \in known_events :
          /\ row.id \in added
          /\ \E u \in Users : <<u, row.artist_id>> \in user_artists /\ ~NoToken(u)
          /\ \E u \in Users : <<u, row.artist_id>> \in user_artists /\ NoToken(u)

\* The segment names of the classifications of an upstream event.
Segments(event) == {event.classifications[i] : i \in DOMAIN event.classifications}

\* out is made of the elements of inp that have no Sports classification, all
\* of them, in the order of inp.
KeepsNonSportsInOrder(out, inp) ==
    \E f \in [DOMAIN out -> DOMAIN inp] :
        /\ \A i, j \in DOMAIN out : i < j => f[i] < f[j]
        /\ \A i \in DOMAIN out : out[i] = inp[f[i]]
        /\ {f[i] : i \in DOMAIN out} = {j \in DOMAIN inp : "Sports" \notin Segments(inp[j])}

\* C20: what fetchEventsForArtist returns for an answered request is the
\* upstream events without Sports classification, all of them and in upstream
\* order; the events the discover loop is working on are that list; and no row
\* of known_events is for an upstream event with a Sports classification.
\* (SpecSeq)
C20_SportsFilteredOut ==
    /\ \A a \in Artists :
          KeepsNonSportsInOrder(FetchEventsForArtist(a, "ok"), catalog[a])
    /\ pc[1] \in {"exists", "insert"} =>
          KeepsNonSportsInOrder(events[1], catalog[artistIds[1][ai[1]]])
    /\ \A row \in known_events :
          \A a \in Artists : \A i \in DOMAIN catalog[a] :
              catalog[a][i].id = row.ticketmaster_id =>
                  "Sports" \notin Segments(catalog[a][i])

\* The discover loop has gone over the answer for an artist that held a Sports
\* event next to another one, and has inserted from it.
C20_Witness ==
    /\ pc[1] = "get_unnotified"
    /\ \E a \in Artists :
          /\ resp[a] = "ok"
          /\ \E i \in DOMAIN catalog[a] : "Sports" \in Segments(catalog[a][i])
          /\ \E i \in DOMAIN catalog[a] : EventExists(catalog[a][i].id)

\* Any two requests of the app start at least MIN_REQUEST_INTERVAL apart.
AppRequestsSpaced ==
    \A p, q \in requests :
        p # q => (p[2] >= q[2] + MIN_REQUEST_INTERVAL \/ q[2] >= p[2] + MIN_REQUEST_INTERVAL)

\* The fetches of consecutive artists of the discover loop start at least
\* FetchDelay apart.
EdgeFetchesSpaced ==
    \A i \in DOMAIN fetchStarts :
        i > 1 => fetchStarts[i] >= fetchStarts[i - 1] + FetchDelay

\* C18: any two catalog requests of one process start at least 200 ms apart:
\* those of the concurrent callers of fetchWithRetry in the app, and the
\* fetches of consecutive artists in the discover loop.  (SpecClient)
C18_RequestsSpaced ==
    AppRequestsSpaced /\ EdgeFetchesSpaced

\* fetchWithRetry sends at most DefaultRetries + 1 requests per call, sleeps
\* for DefaultDelay doubled with every retry, and throws only when no retry is
\* left.  (SpecClient)
FetchWithRetryBounded ==
    \A c \in Callers :
        /\ Cardinality({p \in requests : p[1] = c}) <= DefaultRetries + 1
        /\ cpc[c] # "idle" =>
              /\ retries[c] <= DefaultRetries
              /\ delay[c] = DefaultDelay * 2 ^ (DefaultRetries - retries[c])
        /\ cpc[c] = "threw" =>
              /\ retries[c] = 0
              /\ Cardinality({p \in requests : p[1] = c}) = DefaultRetries + 1

\* C19: the catalog client of a run reports the failure of a request for an
\* artist only after it has retried the request up to the ceiling: a run that
\* holds a failed answer for an artist has sent DefaultRetries + 1 requests
\* for the artist.  (SpecSeq)
C19_FailureOnlyAfterRetries ==
    \A a \in Artists : resp[a] = "fail" => fetches[a] = DefaultRetries + 1

\* C21: the newEventsAdded a run returns is the number of rows the run added
\* to known_events, also when an insert failed or met an existing row.
\* (SpecFault)
C21_NewEventsAddedCountsRows ==
    pc[1] = "done" => stats[1].newEventsAdded = Cardinality(added)

\* C22: a run that starts right after a run that returned without a failed
\* fetch and without a failed send never reaches an insert, a send, a record
\* or a mark: it leaves known_events and sent_notifications as they are, and
\* its newEventsAdded and notificationsSent are 0.  (SpecSeq)
C22_RunAfterCleanRunDoesNothing ==
    prevClean =>
        /\ pc[1] \notin {"insert", "send", "record", "mark"}
        /\ stats[1].newEventsAdded = 0
        /\ stats[1].notificationsSent = 0
        /\ attempted = {}
        /\ added = {}

\* A run returned that went over the events again after a run that had
\* notified for them.
C22_Witness ==
    /\ prevClean
    /\ pc[1] = "done"
    /\ stats[1].eventsProcessed > 0
    /\ LedgerPairs # {}
    /\ Response(1).success

\* The row of known_events is kept by a step: it is still there with its
\* ticketmaster_id and artist_id, and notified has not gone back to false.
RowKept(row) ==
    \E kept \in known_events' :
        /\ kept.id = row.id
        /\ kept.ticketmaster_id = row.ticketmaster_id
        /\ kept.artist_id = row.artist_id
        /\ (row.notified => kept.notified)

\* C23: no step of a run deletes or changes a row of sent_notifications or
\* deletes a row of known_events, and no step takes notified from true back
\* to false.  (Spec)
C23_StoresOnlyGrow ==
    [][/\ sent_notifications \subseteq sent_notifications'
       /\ \A row \in known_events : RowKept(row)]_vars

\* Two runs have started, an event is marked and another is not, and a second
\* record call for a pair has met its ledger row.
C23_Witness ==
    /\ runsStarted = 2
    /\ \E row \in known_events : row.notified
    /\ \E row \in known_events : ~row.notified
    /\ sent_notifications # {}
    /\ stats[1].notificationsSent + stats[2].notificationsSent
           > Cardinality(sent_notifications)

\* sent_notifications holds at most one row per (user_id, event_id).
UniqueLedger ==
    \A row1, row2 \in sent_notifications :
        (row1.user_id = row2.user_id /\ row1.event_id = row2.event_id)
            => row1 = row2

\* A step of run r is its recordSentNotification call for a pair that has a
\* ledger row: the table stays as it is and the run goes on to the next user,
\* the mark or the next event, its counter raised.
DuplicateRecordHarmless(r) ==
    (/\ pc[r] = "record"
     /\ stats'[r] # stats[r]
     /\ Pair(r) \in LedgerPairs)
        => /\ sent_notifications' = sent_notifications
           /\ pc'[r] \in {"check", "mark", "get_users", "finish"}
           /\ stats'[r].notificationsSent = stats[r].notificationsSent + 1

\* C24: sent_notifications always holds at most one row per (user_id,
\* event_id), and a recordSentNotification call of a run for a pair another
\* run has recorded adds no row, changes no row and lets the run go on.
\* (SpecOverlap)
C24_LedgerUniqueDuplicateHarmless ==
    /\ []UniqueLedger
    /\ [][\A r \in Procs : DuplicateRecordHarmless(r)]_vars

\* Both runs have returned and one of them recorded a pair the other had
\* recorded: more record calls were counted than the ledger has rows.
C24_Witness ==
    /\ pc[1] = "done"
    /\ pc[2] = "done"
    /\ stats[1].notificationsSent > 0
    /\ stats[2].notificationsSent > 0
    /\ stats[1].notificationsSent + stats[2].notificationsSent
           > Cardinality(sent_notifications)

\* C25: the notify phase of a run starts after the loop over all its artists,
\* and a run that returns has called send for every follower with a push
\* token of every event it inserted.  (SpecSeq)
C25_NotifyAfterDiscover ==
    /\ pc[1] \in {"get_users", "check", "send", "record", "mark", "finish"}
           => ai[1] = Len(artistIds[1]) + 1
    /\ pc[1] = "done"
           => \A row \in known_events :
                 row.id \in added =>
                    \A i \in 1..Len(GetUsersFollowingArtist(row.artist_id)) :
                        <<GetUsersFollowingArtist(row.artist_id)[i], row.id>>
                            \in attempted

\* A run over two artists returned having inserted an event of its last
\* artist and called send for a follower of it.
C25_Witness ==
    /\ pc[1] = "done"
    /\ Len(artistIds[1]) = 2
    /\ \E row \in known_events :
          /\ row.id \in added
          /\ row.artist_id = artistIds[1][2]
          /\ \E u \in Users : <<u, row.id>> \in attempted

\* Every follower with a push token of the k-th unnotified event of run 1 had
\* a ledger row for it when the pass came to it: the pass called no send.
FullyProcessed(k) ==
    LET event == unnotifiedEvents[1][k]
        followers == GetUsersFollowingArtist(event.artist_id)
    IN /\ Len(followers) > 0
       /\ AttemptedFor(k) = {}
       /\ \A i \in 1..Len(followers) : <<followers[i], event.id>> \in LedgerPairs

\* C26: once the notify pass of a run is over an unnotified event all of
\* whose followers with a push token already had a ledger row, the event has
\* notified = true.  (SpecSeq)
C26_FullyProcessedGetsMarked ==
    \A k \in 1..Len(unnotifiedEvents[1]) :
        (PassOver(k) /\ FullyProcessed(k))
            => \E row \in known_events :
                  row.id = unnotifiedEvents[1][k].id /\ row.notified

\* C27: an event for which a read of getUsersFollowingArtist failed in the
\* current run, and which has a follower with a push token and no ledger
\* row, has notified = false.  (SpecFault)
C27_FailedReadNotZeroRecipients ==
    \A row \in known_events :
        LET followers == GetUsersFollowingArtist(row.artist_id)
        IN (/\ row.id \in readFailed
            /\ \E i \in 1..Len(followers) :
                  <<followers[i], row.id>> \notin LedgerPairs)
               => ~row.notified

\* C28: a run in which a read of getUsersFollowingArtist failed, once it has
\* ended, has gone over all its unnotified events and answers with its
\* counters.  (SpecFault)
C28_FailedTokenReadDoesNotStopRun ==
    (readFailed # {} /\ ~Active(1))
        => /\ Response(1).success
           /\ ui[1] = Len(unnotifiedEvents[1]) + 1

\* A step of run r is its eventExists or insertKnownEvent call for an
\* upstream event that has a row in known_events.
Rediscovery(r) ==
    /\ pc[r] \in {"exists", "insert"}
    /\ pc'[r] # pc[r]
    /\ \E row \in known_events : row.ticketmaster_id = events[r][ei[r]].id

\* The users the fan-out of run r works on are the followers of the artist
\* in the row of the event.
FanOutOfRowArtist(r) ==
    pc[r] \in {"check", "send", "record"} =>
        \E row \in known_events :
            /\ row.id = unnotifiedEvents[r][ui[r]].id
            /\ users[r] = GetUsersFollowingArtist(row.artist_id)

\* C29: a step that meets an upstream event again, under the same or another
\* artist, leaves known_events as it is; no step changes the artist_id or the
\* ticketmaster_id of a row; the fan-out for an event works on the followers
\* of the artist in its row.  (SpecOverlap)
C29_RediscoveryLeavesRow ==
    [][/\ \A r \in Procs : Rediscovery(r) => known_events' = known_events
       /\ \A row \in known_events :
             \E kept \in known_events' :
                /\ kept.id = row.id
                /\ kept.ticketmaster_id = row.ticketmaster_id
                /\ kept.artist_id = row.artist_id
       /\ \A r \in Procs : FanOutOfRowArtist(r)']_vars

\* e1 has its row under a1, insertKnownEvent was called for it twice, and a
\* run has ended its discover loop with the answer for a2, which holds e1.
C29_Witness ==
    /\ \E row \in known_events :
          row.ticketmaster_id = "e1" /\ row.artist_id = "a1"
    /\ Count(ownInsert, "e1") >= 2
    /\ \E r \in Procs :
          /\ pc[r] = "get_unnotified"
          /\ artistIds[r] = <<"a1", "a2">>
          /\ Len(events[r]) > 0
          /\ events[r][1].id = "e1"

\* C30: every artist_id passed to syncUserArtist, syncAllUserArtists or
\* removeUserArtist does not start with 'mock-'.  (SpecApp)
C30_NoMockIdWritten ==
    ~StartsWith(written.artist_id, MockPrefix)

\* removeUserArtist was called with the id of the catalog after an id with
\* the prefix, taken from the cache, had been turned away.
C30_Witness ==
    /\ written.call = "removeUserArtist"
    /\ written.artist_id \in {CatalogId[n] : n \in Names}
    /\ dropped = "cache"
====
